---------------------------- MODULE Spec2Model ----------------------------
(***************************************************************************)
(* Model of model_count.c: a tolerant single-pass scanner that finds       *)
(* "model": "<string>" pairs in a JSON-like byte stream (process_file and  *)
(* its helpers) and the chained hash table that counts the values          *)
(* (table_init, table_inc, table_rehash, hash_str).                        *)
(*                                                                         *)
(* Bytes are numbers 0..255, C strings are sequences of non-zero bytes.    *)
(* 64-bit unsigned values are four 16-bit limbs, least significant first,  *)
(* so that every intermediate product stays below 2^31.                    *)
(***************************************************************************)
EXTENDS Integers, Sequences, FiniteSets, TLC

VARIABLES
    input,        \* the bytes of the stream fp reads (fixed for a run)
    pos,          \* number of bytes of input consumed so far (the stream position)
    pc,           \* "scan": inside process_file; "done": it returned; "table": table-only runs
    result,       \* return value of process_file: 1 success, 0 failure, -1 not returned yet
    table,        \* the HashTable
    models_seen,  \* *models_seen
    before,       \* history: the table as it was when the last table_inc call began
    lastKey,      \* history: the argument of the last table_inc call
    calls,        \* history: the arguments of all table_inc calls so far, in order
    prefill,      \* history: number of generated keys counted before the run begins
    doc,          \* history: the document the input was rendered from (NoDoc if none)
    lit,          \* history: the escape input the stream was written from (NoLit if none)
    out,          \* what main has written to stdout and its exit status (NoOutput before)
    steps         \* history: how often the loop of process_file has read its first byte

vars == <<input, pos, pc, result, table, models_seen, before, lastKey, calls, prefill, doc, lit, out, steps>>

(***************************************************************************)
(* Bytes                                                                   *)
(***************************************************************************)
EOF == -1
QUOTE == 34
BACKSLASH == 92
COLON == 58
COMMA == 44
LBRACE == 123
RBRACE == 125
LBRACKET == 91
RBRACKET == 93
SPACE == 32
NEWLINE == 10
QMARK == 63
SLASH == 47
CH_b == 98
CH_f == 102
CH_n == 110
CH_r == 114
CH_t == 116
CH_u == 117

\* #define KEY_MODEL "model"
KEY_MODEL == <<109, 111, 100, 101, 108>>

INITIAL_BUCKETS == 4096
LOAD_FACTOR_NUM == 3
LOAD_FACTOR_DEN == 4

(***************************************************************************)
(* hash_str: 64-bit FNV-1a over the bytes of a C string.                   *)
(***************************************************************************)
LIMB == 65536

\* 1469598103934665603 = 0x1465 0FB0 739D 0383
FNV_OFFSET == <<899, 29597, 4016, 5221>>

\* 1099511628211 = 2^40 + 435
FNV_PRIME_LOW == 435

\* f(x) for the value of x, computed once as a C local is
Once(f(_), x) == CHOOSE r \in {f(v) : v \in {x}} : TRUE

RECURSIVE XorBits(_, _, _)
\* bitwise exclusive or of the low n bits of a and b
XorBits(a, b, n) ==
    IF n = 0 THEN 0
    ELSE ((a + b) % 2) + 2 * XorBits(a \div 2, b \div 2, n - 1)

\* exclusive or of two 4-bit values, tabulated
XorNibble == [a \in 0 .. 15 |-> [b \in 0 .. 15 |-> XorBits(a, b, 4)]]

\* exclusive or of two bytes
Xor8(a, b) ==
    XorNibble[a \div 16][b \div 16] * 16 + XorNibble[a % 16][b % 16]

\* one round of the loop of hash_str on the limbs a (low) .. d (high) of h and
\* the byte c:  h ^= c changes only the low byte of the low limb;
\* h *= 1099511628211ULL, modulo 2^64, is h * 435 + (h << 40)
HashStep(a, b, c, d, byte) ==
    LET x == (a \div 256) * 256 + Xor8(a % 256, byte)
        r1 == x * FNV_PRIME_LOW
        r2 == b * FNV_PRIME_LOW + (r1 \div LIMB)
        r3 == c * FNV_PRIME_LOW + (r2 \div LIMB) + ((x * 256) % LIMB)
        r4 == d * FNV_PRIME_LOW + (r3 \div LIMB) + ((b * 256) % LIMB) + (x \div 256)
    IN  <<r1 % LIMB, r2 % LIMB, r3 % LIMB, r4 % LIMB>>

RECURSIVE HashFrom(_, _, _)
HashFrom(h, s, i) ==
    IF i > Len(s) THEN h
    ELSE Once(LAMBDA n : HashFrom(n, s, i + 1), HashStep(h[1], h[2], h[3], h[4], s[i]))

hash_str(s) == HashFrom(FNV_OFFSET, s, 1)

\* (size_t)(h % n) for a 64-bit h, by Horner's rule over the limbs (n < 2^15)
HashMod(h, n) ==
    LET a == h[4] % n
        b == (a * LIMB + h[3]) % n
        c == (b * LIMB + h[2]) % n
    IN  (c * LIMB + h[1]) % n

BucketIndex(key, n) == Once(LAMBDA h : HashMod(h, n), hash_str(key))

(***************************************************************************)
(* The hash table.  buckets maps the index of every bucket whose head is   *)
(* not NULL to its chain, head first (calloc leaves all heads NULL, so the  *)
(* domain starts empty); an Entry is [key, count] and its next pointer is   *)
(* its successor in the sequence.  Counts stay far below 2^64 here.         *)
(***************************************************************************)
table_init(buckets) ==
    [buckets |-> <<>>,
     bucket_count |-> buckets,
     size |-> 0]

\* the chain t->buckets[i] of a bucket array b
Chain(b, i) == IF i \in DOMAIN b THEN b[i] ELSE <<>>

\* e->next = b[idx]; b[idx] = e
Push(b, idx, e) ==
    IF idx \in DOMAIN b THEN [b EXCEPT ![idx] = <<e>> \o @] ELSE (idx :> <<e>>) @@ b

\* the inner while loop of table_rehash: relink chain[j..] into nb
RECURSIVE RelinkChain(_, _, _, _)
RelinkChain(nb, chain, j, new_count) ==
    IF j > Len(chain) THEN nb
    ELSE LET e == chain[j]
             idx == BucketIndex(e.key, new_count)
         IN  RelinkChain(Push(nb, idx, e), chain, j + 1, new_count)

\* the for loop of table_rehash over the old buckets lo..hi, in index order
RECURSIVE RelinkBuckets(_, _, _, _, _)
RelinkBuckets(nb, old, lo, hi, new_count) ==
    IF lo > hi THEN nb
    ELSE IF lo = hi THEN RelinkChain(nb, Chain(old, lo), 1, new_count)
    ELSE LET mid == (lo + hi) \div 2
             left == RelinkBuckets(nb, old, lo, mid, new_count)
         IN  \* the test only fixes the order of evaluation: left half first
             IF DOMAIN left = {}
             THEN RelinkBuckets(<<>>, old, mid + 1, hi, new_count)
             ELSE RelinkBuckets(left, old, mid + 1, hi, new_count)

\* table_rehash that reads e->next after relinking e: the rest of a chain is lost
table_rehash_LosesTail(t) ==
    LET new_count == t.bucket_count * 2
        heads == [i \in DOMAIN t.buckets |-> <<t.buckets[i][1]>>]
    IN  [buckets |-> RelinkBuckets(<<>>, heads, 0, t.bucket_count - 1, new_count),
         bucket_count |-> new_count,
         size |-> t.size]

\* table_rehash that relinks every entry by its index among the old buckets
table_rehash_OldIndex(t) ==
    LET new_count == t.bucket_count * 2
    IN  [buckets |-> RelinkBuckets(<<>>, t.buckets, 0, t.bucket_count - 1, t.bucket_count),
         bucket_count |-> new_count,
         size |-> t.size]

\* table_rehash that grows to 2n + 1 buckets
table_rehash_OddGrowth(t) ==
    LET new_count == t.bucket_count * 2 + 1
    IN  [buckets |-> RelinkBuckets(<<>>, t.buckets, 0, t.bucket_count - 1, new_count),
         bucket_count |-> new_count,
         size |-> t.size]

table_rehash(t) ==
    LET new_count == t.bucket_count * 2
    IN  [buckets |-> RelinkBuckets(<<>>, t.buckets, 0, t.bucket_count - 1, new_count),
         bucket_count |-> new_count,
         size |-> t.size]

\* index in chain of the first entry whose key equals key (strcmp == 0), 0 if none
RECURSIVE FindInChain(_, _, _)
FindInChain(chain, key, j) ==
    IF j > Len(chain) THEN 0
    ELSE IF chain[j].key = key THEN j
    ELSE FindInChain(chain, key, j + 1)

\* the growth check with > in place of >=
NeedsGrow_Strict(t) ==
    (t.size * LOAD_FACTOR_DEN) > (t.bucket_count * LOAD_FACTOR_NUM)

NeedsGrow(t) ==
    (t.size * LOAD_FACTOR_DEN) >= (t.bucket_count * LOAD_FACTOR_NUM)

NewEntry(key) == [key |-> key, count |-> 1]

\* the lookup without strcmp: any entry of the bucket is taken for the key
IncNoGrow_AnyInBucket(t, key) ==
    LET idx == BucketIndex(key, t.bucket_count)
    IN  IF Chain(t.buckets, idx) # <<>>
        THEN [t EXCEPT !.buckets[idx][1].count = @ + 1]
        ELSE [t EXCEPT !.buckets = Push(@, idx, NewEntry(key)), !.size = @ + 1]

\* the lookup without e = e->next: only the head of the chain is compared
IncNoGrow_HeadOnly(t, key) ==
    LET idx == BucketIndex(key, t.bucket_count)
        chain == Chain(t.buckets, idx)
    IN  IF chain # <<>> /\ chain[1].key = key
        THEN [t EXCEPT !.buckets[idx][1].count = @ + 1]
        ELSE [t EXCEPT !.buckets = Push(@, idx, NewEntry(key)), !.size = @ + 1]

\* the insertion without t->size++
IncNoGrow_NoSize(t, key) ==
    LET idx == BucketIndex(key, t.bucket_count)
        j == FindInChain(Chain(t.buckets, idx), key, 1)
    IN  IF j > 0
        THEN [t EXCEPT !.buckets[idx][j].count = @ + 1]
        ELSE [t EXCEPT !.buckets = Push(@, idx, NewEntry(key))]

\* table_inc after the growth check: look the key up, count it or insert it
IncNoGrow(t, key) ==
    LET idx == BucketIndex(key, t.bucket_count)
        j == FindInChain(Chain(t.buckets, idx), key, 1)
    IN  IF j > 0
        THEN [t EXCEPT !.buckets[idx][j].count = @ + 1]
        ELSE [t EXCEPT !.buckets = Push(@, idx, NewEntry(key)), !.size = @ + 1]

table_inc(t, key) ==
    IncNoGrow(IF NeedsGrow(t) THEN table_rehash(t) ELSE t, key)

\* every Entry, every key and the bucket array are freed: no chain is left;
\* the fields bucket_count and size of the struct are not written
table_free(t) == [t EXCEPT !.buckets = <<>>]

\* get_count of the unit test: look only at the bucket the key hashes to
get_count(t, key) ==
    LET chain == Chain(t.buckets, BucketIndex(key, t.bucket_count))
        j == FindInChain(chain, key, 1)
    IN  IF j > 0 THEN chain[j].count ELSE 0

(***************************************************************************)
(* The stream.  fp is the byte sequence inp and the number p of bytes      *)
(* already consumed.  fgetc returns EOF at the end without moving; the     *)
(* only ungetc of the program pushes back the byte just read, which moves  *)
(* the position back by one.                                               *)
(***************************************************************************)
fgetc(inp, p) == IF p < Len(inp) THEN inp[p + 1] ELSE EOF

\* the stream position after a call of fgetc at position p
Advance(inp, p) == IF p < Len(inp) THEN p + 1 ELSE p

\* isspace in the C locale: space, \t, \n, \v, \f, \r
isspace(c) == c = SPACE \/ c \in 9 .. 13

\* isxdigit: 0-9, A-F, a-f
isxdigit(c) == c \in 48 .. 57 \/ c \in 65 .. 70 \/ c \in 97 .. 102

\* a char buffer read as a C string: the bytes before the first NUL
CStr(buf) ==
    IF \E i \in 1 .. Len(buf) : buf[i] = 0
    THEN SubSeq(buf, 1, (CHOOSE i \in 1 .. Len(buf) :
                            buf[i] = 0 /\ \A j \in 1 .. i - 1 : buf[j] # 0) - 1)
    ELSE buf

\* skip_ws without the loop: it returns the next byte, whitespace or not
skip_ws_None(inp, p) == [c |-> fgetc(inp, p), pos |-> Advance(inp, p)]

RECURSIVE skip_ws(_, _)
\* returns the first byte that is not whitespace (or EOF) and the position after it
skip_ws(inp, p) ==
    LET c == fgetc(inp, p)
    IN  IF c # EOF /\ isspace(c)
        THEN skip_ws(inp, p + 1)
        ELSE [c |-> c, pos |-> Advance(inp, p)]

\* the switch of read_json_string on the byte after a backslash
Unescape(esc) ==
    CASE esc = QUOTE -> QUOTE
      [] esc = BACKSLASH -> BACKSLASH
      [] esc = SLASH -> SLASH
      [] esc = CH_b -> 8
      [] esc = CH_f -> 12
      [] esc = CH_n -> 10
      [] esc = CH_r -> 13
      [] esc = CH_t -> 9
      [] OTHER -> esc

\* the check of the bytes after \u that looks at the first of them only
BadHex_FirstOnly(inp, p) ==
    IF fgetc(inp, p) # EOF /\ isxdigit(fgetc(inp, p)) THEN 0 ELSE 1

\* the for loop over the four bytes after \u, starting at position p:
\* 0 if all four are hex digits, else the number of bytes read up to the bad one
BadHex(inp, p) ==
    IF \A i \in 0 .. 3 : fgetc(inp, p + i) # EOF /\ isxdigit(fgetc(inp, p + i))
    THEN 0
    ELSE 1 + CHOOSE i \in 0 .. 3 :
                /\ fgetc(inp, p + i) = EOF \/ ~isxdigit(fgetc(inp, p + i))
                /\ \A j \in 0 .. i - 1 : fgetc(inp, p + j) # EOF /\ isxdigit(fgetc(inp, p + j))

StringFailed(inp, p) == [ok |-> FALSE, buf |-> <<>>, pos |-> IF p > Len(inp) THEN Len(inp) ELSE p]

RECURSIVE ReadString(_, _, _)
\* the for (;;) loop of read_json_string at position p with buf decoded so far
ReadString(inp, p, buf) ==
    LET c == fgetc(inp, p)
    IN  IF c = EOF THEN StringFailed(inp, p)
        ELSE IF c = QUOTE THEN [ok |-> TRUE, buf |-> buf, pos |-> p + 1]
        ELSE IF c = BACKSLASH THEN
            LET esc == fgetc(inp, p + 1)
            IN  IF esc = EOF THEN StringFailed(inp, p + 1)
                ELSE IF esc = CH_u THEN
                    IF BadHex(inp, p + 2) # 0
                    THEN StringFailed(inp, p + 2 + BadHex(inp, p + 2))
                    ELSE ReadString(inp, p + 6, Append(buf, QMARK))
                ELSE ReadString(inp, p + 2, Append(buf, Unescape(esc)))
        ELSE ReadString(inp, p + 1, Append(buf, c))

\* called after the opening quote was read; ok = FALSE stands for NULL.
\* Allocation failure (xmalloc, realloc) ends the process and is left out.
read_json_string(inp, p) == ReadString(inp, p, <<>>)

RECURSIVE ContainerLoop_NoEscape(_, _, _, _, _)
\* the loop without the esc flag: every quote inside a string ends it
ContainerLoop_NoEscape(inp, p, depth, in_string, esc) ==
    IF depth <= 0 THEN [ok |-> TRUE, pos |-> p]
    ELSE LET c == fgetc(inp, p)
         IN  IF c = EOF THEN [ok |-> FALSE, pos |-> p]
             ELSE IF in_string THEN
                 ContainerLoop_NoEscape(inp, p + 1, depth, c # QUOTE, FALSE)
             ELSE IF c = QUOTE THEN ContainerLoop_NoEscape(inp, p + 1, depth, TRUE, esc)
             ELSE IF c = LBRACE \/ c = LBRACKET
                 THEN ContainerLoop_NoEscape(inp, p + 1, depth + 1, FALSE, esc)
             ELSE IF c = RBRACE \/ c = RBRACKET
                 THEN ContainerLoop_NoEscape(inp, p + 1, depth - 1, FALSE, esc)
             ELSE ContainerLoop_NoEscape(inp, p + 1, depth, FALSE, esc)

RECURSIVE ContainerLoop(_, _, _, _, _)
\* while (depth > 0) of consume_json_value
ContainerLoop(inp, p, depth, in_string, esc) ==
    IF depth <= 0 THEN [ok |-> TRUE, pos |-> p]
    ELSE LET c == fgetc(inp, p)
         IN  IF c = EOF THEN [ok |-> FALSE, pos |-> p]
             ELSE IF in_string THEN
                 IF esc THEN ContainerLoop(inp, p + 1, depth, TRUE, FALSE)
                 ELSE IF c = BACKSLASH THEN ContainerLoop(inp, p + 1, depth, TRUE, TRUE)
                 ELSE IF c = QUOTE THEN ContainerLoop(inp, p + 1, depth, FALSE, FALSE)
                 ELSE ContainerLoop(inp, p + 1, depth, TRUE, FALSE)
             ELSE IF c = QUOTE THEN ContainerLoop(inp, p + 1, depth, TRUE, esc)
             ELSE IF c = LBRACE \/ c = LBRACKET
                 THEN ContainerLoop(inp, p + 1, depth + 1, FALSE, esc)
             ELSE IF c = RBRACE \/ c = RBRACKET
                 THEN ContainerLoop(inp, p + 1, depth - 1, FALSE, esc)
             ELSE ContainerLoop(inp, p + 1, depth, FALSE, esc)

IsDelimiter(c) == c = COMMA \/ c = RBRACE \/ c = RBRACKET

RECURSIVE ScalarLoop(_, _, _)
\* the while loop of the scalar case: the byte that ended it and the position
ScalarLoop(inp, p, c) ==
    IF c # EOF /\ ~IsDelimiter(c) /\ ~isspace(c)
    THEN ScalarLoop(inp, Advance(inp, p), fgetc(inp, p))
    ELSE [c |-> c, pos |-> p]

\* consume_json_value that takes a container for its opening byte alone
consume_json_value_Shallow(inp, p, first) ==
    IF first = QUOTE THEN
        LET s == read_json_string(inp, p) IN [ok |-> s.ok, pos |-> s.pos]
    ELSE IF first = LBRACE \/ first = LBRACKET THEN
        [ok |-> TRUE, pos |-> p]
    ELSE
        LET e == ScalarLoop(inp, p, first)
        IN  [ok |-> TRUE, pos |-> IF IsDelimiter(e.c) THEN e.pos - 1 ELSE e.pos]

\* consume_json_value without the ungetc of the delimiter
consume_json_value_NoUnget(inp, p, first) ==
    IF first = QUOTE THEN
        LET s == read_json_string(inp, p) IN [ok |-> s.ok, pos |-> s.pos]
    ELSE IF first = LBRACE \/ first = LBRACKET THEN
        ContainerLoop(inp, p, 1, FALSE, FALSE)
    ELSE
        LET e == ScalarLoop(inp, p, first)
        IN  [ok |-> TRUE, pos |-> e.pos]

\* first is the byte already read, p the position after it
consume_json_value(inp, p, first) ==
    IF first = QUOTE THEN
        LET s == read_json_string(inp, p) IN [ok |-> s.ok, pos |-> s.pos]
    ELSE IF first = LBRACE \/ first = LBRACKET THEN
        ContainerLoop(inp, p, 1, FALSE, FALSE)
    ELSE
        LET e == ScalarLoop(inp, p, first)
        IN  [ok |-> TRUE, pos |-> IF IsDelimiter(e.c) THEN e.pos - 1 ELSE e.pos]

\* the test of line 313 without && c == '"'
IsTarget_KeyOnly(key, c) == CStr(key) = KEY_MODEL

\* strcmp(key, KEY_MODEL) == 0 && c == '"'
IsTarget(key, c) == CStr(key) = KEY_MODEL /\ c = QUOTE

(***************************************************************************)
(* Inputs of the scanner runs: the three inputs of the unit test, small    *)
(* documents rendered from a list of members, and short concatenations of  *)
(* tokens that need not be well formed.                                    *)
(***************************************************************************)
MaxMembers == 2
MaxTokens == 3

\* [{"id":1,"model":"RDV2","serial":"A"},{"id":2,"model":"ABC","serial":"B"},{"id":3,"model":"RDV2","serial":"C"}]
TEST_INPUT_1 ==
    <<91, 123, 34, 105, 100, 34, 58, 49, 44, 34, 109, 111, 100, 101, 108,
      34, 58, 34, 82, 68, 86, 50, 34, 44, 34, 115, 101, 114, 105, 97, 108,
      34, 58, 34, 65, 34, 125, 44, 123, 34, 105, 100, 34, 58, 50, 44, 34,
      109, 111, 100, 101, 108, 34, 58, 34, 65, 66, 67, 34, 44, 34, 115,
      101, 114, 105, 97, 108, 34, 58, 34, 66, 34, 125, 44, 123, 34, 105,
      100, 34, 58, 51, 44, 34, 109, 111, 100, 101, 108, 34, 58, 34, 82, 68,
      86, 50, 34, 44, 34, 115, 101, 114, 105, 97, 108, 34, 58, 34, 67, 34,
      125, 93>>

\* [{"id":1,"serial":"A"},{"id":2,"model":"XYZ","serial":"B"},{"id":3,"nested":{"model":"RDV2"},"serial":"C"}]
TEST_INPUT_2 ==
    <<91, 123, 34, 105, 100, 34, 58, 49, 44, 34, 115, 101, 114, 105, 97,
      108, 34, 58, 34, 65, 34, 125, 44, 123, 34, 105, 100, 34, 58, 50, 44,
      34, 109, 111, 100, 101, 108, 34, 58, 34, 88, 89, 90, 34, 44, 34, 115,
      101, 114, 105, 97, 108, 34, 58, 34, 66, 34, 125, 44, 123, 34, 105,
      100, 34, 58, 51, 44, 34, 110, 101, 115, 116, 101, 100, 34, 58, 123,
      34, 109, 111, 100, 101, 108, 34, 58, 34, 82, 68, 86, 50, 34, 125, 44,
      34, 115, 101, 114, 105, 97, 108, 34, 58, 34, 67, 34, 125, 93>>

\* [{"model":"RDV2"},{"model":123},{"model":"RDV2"},{"model":"ABC"}]
TEST_INPUT_3 ==
    <<91, 123, 34, 109, 111, 100, 101, 108, 34, 58, 34, 82, 68, 86, 50, 34,
      125, 44, 123, 34, 109, 111, 100, 101, 108, 34, 58, 49, 50, 51, 125,
      44, 123, 34, 109, 111, 100, 101, 108, 34, 58, 34, 82, 68, 86, 50, 34,
      125, 44, 123, 34, 109, 111, 100, 101, 108, 34, 58, 34, 65, 66, 67,
      34, 125, 93>>

TestInputs == {TEST_INPUT_1, TEST_INPUT_2, TEST_INPUT_3}

VAL_A == <<65>>
VAL_B == <<66>>
VAL_RDV2 == <<82, 68, 86, 50>>
VAL_ABC == <<65, 66, 67>>
VAL_XYZ == <<88, 89, 90>>

\* the members a generated object is made of
MemberKinds ==
    {"modelA", "modelB", "id", "serial", "modelNum", "modelNull", "modelObj",
     "nested", "list"}

MemberText(kind) ==
    CASE kind = "modelA" ->     \* "model":"A"
            <<34, 109, 111, 100, 101, 108, 34, 58, 34, 65, 34>>
      [] kind = "modelB" ->     \* "model" : "B"
            <<34, 109, 111, 100, 101, 108, 34, 32, 58, 32, 34, 66, 34>>
      [] kind = "id" ->         \* "id":1
            <<34, 105, 100, 34, 58, 49>>
      [] kind = "serial" ->     \* "serial":"A"
            <<34, 115, 101, 114, 105, 97, 108, 34, 58, 34, 65, 34>>
      [] kind = "modelNum" ->   \* "model":123
            <<34, 109, 111, 100, 101, 108, 34, 58, 49, 50, 51>>
      [] kind = "modelNull" ->  \* "model":null
            <<34, 109, 111, 100, 101, 108, 34, 58, 110, 117, 108, 108>>
      [] kind = "modelObj" ->   \* "model":{"model":"B"}
            <<34, 109, 111, 100, 101, 108, 34, 58, 123, 34, 109, 111, 100, 101, 108, 34, 58, 34, 66, 34, 125>>
      [] kind = "nested" ->     \* "nested":{"model":"B"}
            <<34, 110, 101, 115, 116, 101, 100, 34, 58, 123, 34, 109, 111, 100, 101, 108, 34, 58, 34, 66, 34, 125>>
      [] kind = "list" ->       \* "list":[{"model":"A"}]
            <<34, 108, 105, 115, 116, 34, 58, 91, 123, 34, 109, 111, 100, 101, 108, 34, 58, 34, 65, 34, 125, 93>>

\* a document: members in order, each either opening a new object or continuing
\* the one before; wrap = 1 puts the objects in an array
Items == [kind : MemberKinds, first : BOOLEAN]

RECURSIVE ItemSeqs(_)
ItemSeqs(n) ==
    IF n = 0 THEN {<<>>}
    ELSE LET shorter == ItemSeqs(n - 1)
         IN  shorter \cup {Append(q, it) : q \in {r \in shorter : Len(r) = n - 1}, it \in Items}

Docs ==
    {[wrap |-> w, items |-> q] :
        w \in {0, 1},
        q \in {r \in ItemSeqs(MaxMembers) : Len(r) > 0 /\ r[1].first}}

RECURSIVE RenderItems(_, _)
RenderItems(q, i) ==
    IF i > Len(q) THEN <<RBRACE>>
    ELSE (IF i = 1 THEN <<LBRACE>>
          ELSE IF q[i].first THEN <<RBRACE, COMMA, LBRACE>>
          ELSE <<COMMA>>)
         \o MemberText(q[i].kind) \o RenderItems(q, i + 1)

Render(d) ==
    IF d.wrap = 1 THEN <<LBRACKET>> \o RenderItems(d.items, 1) \o <<RBRACKET>>
    ELSE RenderItems(d.items, 1)

\* the pieces of the token inputs: "model":  "k":  "A"  "  1  {  }  space  \  ,  ]
Tokens ==
    {<<34, 109, 111, 100, 101, 108, 34, 58>>, <<34, 107, 34, 58>>, <<34, 65, 34>>, <<QUOTE>>, <<49>>, <<LBRACE>>, <<RBRACE>>, <<SPACE>>,
     <<BACKSLASH>>, <<COMMA>>, <<RBRACKET>>}

RECURSIVE TokenInputs(_)
TokenInputs(n) ==
    IF n = 0 THEN {<<>>}
    ELSE {<<>>} \cup {t \o r : t \in Tokens, r \in TokenInputs(n - 1)}

\* escape inputs: a literal that begins with a backslash and a few bytes out of
\* u 1 g " and is then closed, written as a candidate key, as the value of
\* "model", as the value of another key, or inside the container value of a key
MaxEscape == 5

EscapeBytes == {CH_u, 49, 103, QUOTE}

RECURSIVE EscapeBodies(_)
EscapeBodies(n) ==
    IF n = 0 THEN {<<>>}
    ELSE {<<>>} \cup {<<b>> \o r : b \in EscapeBytes, r \in EscapeBodies(n - 1)}

LiteralPlaces == {"key", "value", "string", "container"}

BeforeLiteral(place) ==
    CASE place = "key" -> <<QUOTE>>                 \* "
      [] place = "value" -> <<34, 109, 111, 100, 101, 108, 34, 58, 34>>       \* "model":"
      [] place = "string" -> <<34, 107, 34, 58, 34>>      \* "k":"
      [] place = "container" -> <<34, 107, 34, 58, 123, 34, 97, 34, 58, 34>>   \* "k":{"a":"

AfterLiteral(place) ==
    CASE place = "key" -> <<QUOTE, COLON, 49>>      \* ":1
      [] place = "container" -> <<QUOTE, RBRACE>>   \* "}
      [] OTHER -> <<QUOTE>>

Literals == [place : LiteralPlaces, body : EscapeBodies(MaxEscape)]

RenderLiteral(l) ==
    BeforeLiteral(l.place) \o <<BACKSLASH>> \o l.body \o AfterLiteral(l.place)

NoLit == [place |-> "none", body |-> <<>>]

\* pair inputs: up to MaxPairs objects {"model":"<value>"} one after the other,
\* with the values "", "A", "AB", "B"
MaxPairs == 3

PairValues == {<<>>, <<65>>, <<65, 66>>, <<66>>}

PairText(v) == <<LBRACE>> \o <<34, 109, 111, 100, 101, 108, 34, 58>> \o <<QUOTE>> \o v \o <<QUOTE, RBRACE>>

RECURSIVE PairInputs(_)
PairInputs(n) ==
    IF n = 0 THEN {<<>>}
    ELSE {<<>>} \cup {PairText(v) \o r : v \in PairValues, r \in PairInputs(n - 1)}

\* container inputs: "k": and an opening brace or bracket, followed by up to
\* MaxBody bytes out of { } ] " \
MaxBody == 5

BodyBytes == {LBRACE, RBRACE, RBRACKET, QUOTE, BACKSLASH}

RECURSIVE Bodies(_)
Bodies(n) ==
    IF n = 0 THEN {<<>>}
    ELSE {<<>>} \cup {<<b>> \o r : b \in BodyBytes, r \in Bodies(n - 1)}

ContainerInputs(n) ==
    {<<34, 107, 34, 58>> \o <<open>> \o r : open \in {LBRACE, LBRACKET}, r \in Bodies(n)}

NoDoc == [wrap |-> 0, items |-> <<>>]

(***************************************************************************)
(* The report of main: the entries collected bucket by bucket, sorted with *)
(* pair_cmp and printed under a line with their number.                    *)
(***************************************************************************)
NoOutput == [status |-> -1, unique |-> -1, lines |-> <<>>]

EXIT_SUCCESS == 0
EXIT_FAILURE == 1

\* the sign of strcmp(a, b) for two C strings
RECURSIVE strcmp_from(_, _, _)
strcmp_from(a, b, i) ==
    IF i > Len(a) /\ i > Len(b) THEN 0
    ELSE IF i > Len(a) THEN -1
    ELSE IF i > Len(b) THEN 1
    ELSE IF a[i] < b[i] THEN -1
    ELSE IF a[i] > b[i] THEN 1
    ELSE strcmp_from(a, b, i + 1)

strcmp(a, b) == strcmp_from(a, b, 1)

\* pair_cmp with the two tests on count exchanged: ascending counts
pair_cmp_Ascending(pa, pb) ==
    IF pa.count < pb.count THEN -1
    ELSE IF pa.count > pb.count THEN 1
    ELSE strcmp(pa.key, pb.key)

pair_cmp(pa, pb) ==
    IF pa.count < pb.count THEN 1
    ELSE IF pa.count > pb.count THEN -1
    ELSE strcmp(pa.key, pb.key)

\* the pairs array: for i from 0 to bucket_count - 1, the chain of bucket i
RECURSIVE CollectPairs(_, _)
CollectPairs(b, todo) ==
    IF todo = {} THEN <<>>
    ELSE LET i == CHOOSE m \in todo : \A n \in todo : m <= n
         IN  b[i] \o CollectPairs(b, todo \ {i})

\* x put into the sorted sequence q before the first pair that it precedes
RECURSIVE InsertPair(_, _, _)
InsertPair(q, x, i) ==
    IF i > Len(q) THEN Append(q, x)
    ELSE IF pair_cmp(x, q[i]) < 0
         THEN SubSeq(q, 1, i - 1) \o <<x>> \o SubSeq(q, i, Len(q))
         ELSE InsertPair(q, x, i + 1)

\* qsort(pairs, size, sizeof(Pair), pair_cmp): the keys differ, so pair_cmp
\* orders the pairs strictly and there is one sorted arrangement
RECURSIVE qsort(_, _)
qsort(pairs, n) ==
    IF n = 0 THEN <<>>
    ELSE InsertPair(qsort(pairs, n - 1), pairs[n], 1)

(***************************************************************************)
(* Scanner runs: main's table_init(INITIAL_BUCKETS), models_seen = 0, then *)
(* process_file, one action per way an iteration of its loop can go.       *)
(* The progress report writes to stderr only and is left out.              *)
(***************************************************************************)
Init ==
    /\ \/ /\ doc \in Docs
          /\ lit = NoLit
          /\ input = Render(doc)
       \/ /\ doc = NoDoc
          /\ lit = NoLit
          /\ input \in TestInputs \cup TokenInputs(MaxTokens) \cup PairInputs(MaxPairs)
                       \cup ContainerInputs(MaxBody)
       \/ /\ doc = NoDoc
          /\ lit \in Literals
          /\ input = RenderLiteral(lit)
    /\ pos = 0
    /\ pc = "scan"
    /\ result = -1
    /\ table = table_init(INITIAL_BUCKETS)
    /\ models_seen = 0
    /\ before = table
    /\ lastKey = <<>>
    /\ calls = <<>>
    /\ prefill = 0
    /\ out = NoOutput
    /\ steps = 0

\* what one iteration reads, from the position pos of the stream
CurByte == fgetc(input, pos)
CurKey == read_json_string(input, pos + 1)
AfterKey == Once(LAMBDA key : skip_ws(input, key.pos), CurKey)
AfterColon == Once(LAMBDA c : skip_ws(input, c.pos), AfterKey)
CurValue == Once(LAMBDA c : read_json_string(input, c.pos), AfterColon)
CurSkip == Once(LAMBDA c : consume_json_value(input, c.pos, c.c), AfterColon)

\* a quote was read, the key decoded, a colon and the first byte of a value found
AtValue ==
    /\ pc = "scan"
    /\ CurByte = QUOTE
    /\ CurKey.ok
    /\ AfterKey.c = COLON
    /\ AfterColon.c # EOF

Return(r, p) ==
    /\ pc' = "done"
    /\ result' = r
    /\ pos' = p
    /\ UNCHANGED <<input, table, models_seen, before, lastKey, calls, prefill, doc, lit, out>>
    /\ steps' = steps + 1

Continue(p) ==
    /\ pos' = p
    /\ UNCHANGED <<input, pc, result, table, models_seen, before, lastKey, calls, prefill, doc, lit, out>>
    /\ steps' = steps + 1

\* while ((c = fgetc(fp)) != EOF) fails: return 1
ReturnAtEof ==
    /\ pc = "scan"
    /\ CurByte = EOF
    /\ Return(1, pos)

\* if (c != '"') continue;
SkipByte ==
    /\ pc = "scan"
    /\ CurByte # EOF
    /\ CurByte # QUOTE
    /\ Continue(pos + 1)

\* if (!key) return 0;
KeyFails ==
    /\ pc = "scan"
    /\ CurByte = QUOTE
    /\ ~CurKey.ok
    /\ Return(0, CurKey.pos)

\* abandoning with the stream set back to the quote that opened the candidate
Abandon_Rewind ==
    /\ pc = "scan"
    /\ CurByte = QUOTE
    /\ CurKey.ok
    /\ AfterKey.c # COLON
    /\ Continue(pos)

\* if (c != ':') { free(key); continue; }
Abandon ==
    /\ pc = "scan"
    /\ CurByte = QUOTE
    /\ CurKey.ok
    /\ AfterKey.c # COLON
    /\ Continue(AfterKey.pos)

\* end-of-stream behind the colon taken for a failure
EofAfterColon_Fails ==
    /\ pc = "scan"
    /\ CurByte = QUOTE
    /\ CurKey.ok
    /\ AfterKey.c = COLON
    /\ AfterColon.c = EOF
    /\ Return(0, AfterColon.pos)

\* if (c == EOF) { free(key); break; }  and then return 1
EofAfterColon ==
    /\ pc = "scan"
    /\ CurByte = QUOTE
    /\ CurKey.ok
    /\ AfterKey.c = COLON
    /\ AfterColon.c = EOF
    /\ Return(1, AfterColon.pos)

\* the emission with (*models_seen)++ but without table_inc
Emit_CountOnly ==
    /\ AtValue
    /\ IsTarget(CurKey.buf, AfterColon.c)
    /\ CurValue.ok
    /\ models_seen' = models_seen + 1
    /\ pos' = CurValue.pos
    /\ UNCHANGED <<input, pc, result, prefill, doc, lit, out, table, before, lastKey, calls>>
    /\ steps' = steps + 1

\* the emission with table_inc but without (*models_seen)++
Emit_NotSeen ==
    /\ AtValue
    /\ IsTarget(CurKey.buf, AfterColon.c)
    /\ CurValue.ok
    /\ \E val \in {CStr(CurValue.buf)} :
          /\ table' = table_inc(table, val)
          /\ lastKey' = val
          /\ calls' = Append(calls, val)
    /\ before' = table
    /\ pos' = CurValue.pos
    /\ UNCHANGED <<input, pc, result, prefill, doc, lit, out, models_seen>>
    /\ steps' = steps + 1

\* the target key with a string value: table_inc(table, val); (*models_seen)++;
Emit ==
    /\ AtValue
    /\ IsTarget(CurKey.buf, AfterColon.c)
    /\ CurValue.ok
    /\ \E val \in {CStr(CurValue.buf)} :
          /\ table' = table_inc(table, val)
          /\ lastKey' = val
          /\ calls' = Append(calls, val)
    /\ before' = table
    /\ models_seen' = models_seen + 1
    /\ pos' = CurValue.pos
    /\ UNCHANGED <<input, pc, result, prefill, doc, lit, out>>
    /\ steps' = steps + 1

\* if (!val) { free(key); return 0; }
ValueFails ==
    /\ AtValue
    /\ IsTarget(CurKey.buf, AfterColon.c)
    /\ ~CurValue.ok
    /\ Return(0, CurValue.pos)

\* the else branch, consume_json_value returned 1
SkipValue ==
    /\ AtValue
    /\ ~IsTarget(CurKey.buf, AfterColon.c)
    /\ CurSkip.ok
    /\ Continue(CurSkip.pos)

\* if (!consume_json_value(fp, c)) { free(key); return 0; }
SkipFails ==
    /\ AtValue
    /\ ~IsTarget(CurKey.buf, AfterColon.c)
    /\ ~CurSkip.ok
    /\ Return(0, CurSkip.pos)

\* process_file returned 0: the message goes to stderr, nothing to stdout,
\* and the table is freed
ExitOnFailure ==
    /\ pc = "done"
    /\ result = 0
    /\ pc' = "exit"
    /\ out' = [status |-> EXIT_FAILURE, unique |-> -1, lines |-> <<>>]
    /\ table' = table_free(table)
    /\ UNCHANGED <<input, pos, result, models_seen, before, lastKey, calls, prefill, doc, lit, steps>>

\* process_file returned 1: collect, sort, print "Unique models: N" and a line
\* "<key>: <count>" per pair, then free the table
PrintReport ==
    /\ pc = "done"
    /\ result = 1
    /\ pc' = "exit"
    /\ out' = [status |-> EXIT_SUCCESS,
               unique |-> table.size,
               lines |-> qsort(CollectPairs(table.buckets, DOMAIN table.buckets), table.size)]
    /\ table' = table_free(table)
    /\ UNCHANGED <<input, pos, result, models_seen, before, lastKey, calls, prefill, doc, lit, steps>>

Next ==
    \/ ReturnAtEof
    \/ SkipByte
    \/ KeyFails
    \/ Abandon
    \/ EofAfterColon
    \/ Emit
    \/ ValueFails
    \/ SkipValue
    \/ SkipFails
    \/ ExitOnFailure
    \/ PrintReport

Spec == Init /\ [][Next]_vars

\* the program is one thread that runs on until main returns
SpecFair == Init /\ [][Next]_vars /\ WF_vars(Next)

(***************************************************************************)
(* Table-only runs: table_init(INITIAL_BUCKETS), then table_inc calls.     *)
(* Growth needs 3072 distinct keys, so a run may begin from the table that *)
(* table_inc builds from the first n keys of a fixed enumeration ("0001",  *)
(* "0002", ...), with n up to one less than the growth threshold.          *)
(***************************************************************************)
MaxCalls == 3

\* the 4-digit decimal numeral of i, as a C string
KeyOf(i) ==
    <<48 + ((i \div 1000) % 10), 48 + ((i \div 100) % 10),
      48 + ((i \div 10) % 10), 48 + (i % 10)>>

\* "", "GL1" (in the bucket of "" among 4096 buckets, in another among 8192) and
\* "0202" (among the generated keys: the tail of a chain of three)
KEY_EMPTY == <<>>
KEY_GL1 == <<71, 76, 49>>
TableKeys == {KEY_EMPTY, KEY_GL1, KeyOf(202)}

GrowAt == (INITIAL_BUCKETS * LOAD_FACTOR_NUM) \div LOAD_FACTOR_DEN

\* nothing, one key, or one key less than the growth threshold
PrefillChoices == {0, 1, GrowAt - 1}

RECURSIVE IncRange(_, _, _)
\* table_inc(t, KeyOf(lo)); ...; table_inc(t, KeyOf(hi))
IncRange(t, lo, hi) ==
    IF lo > hi THEN t
    ELSE IF lo = hi THEN table_inc(t, KeyOf(lo))
    ELSE LET mid == (lo + hi) \div 2
             left == IncRange(t, lo, mid)
         IN  IF left.size >= 0 THEN IncRange(left, mid + 1, hi) ELSE left

InitTable ==
    /\ prefill \in PrefillChoices
    /\ table = IncRange(table_init(INITIAL_BUCKETS), 1, prefill)
    /\ before = table
    /\ lastKey = <<>>
    /\ calls = <<>>
    /\ input = <<>>
    /\ pos = 0
    /\ pc = "table"
    /\ result = -1
    /\ models_seen = 0
    /\ doc = NoDoc
    /\ lit = NoLit
    /\ out = NoOutput
    /\ steps = 0

\* one call table_inc(&table, key)
Inc(key) ==
    /\ pc = "table"
    /\ Len(calls) < MaxCalls
    /\ before' = table
    /\ lastKey' = key
    /\ calls' = Append(calls, key)
    /\ table' = table_inc(table, key)
    /\ UNCHANGED <<input, pos, pc, result, models_seen, prefill, doc, lit, out, steps>>

NextTable == \E key \in TableKeys : Inc(key)

SpecTable == InitTable /\ [][NextTable]_vars

(***************************************************************************)
(* What the table holds, read off the chains.                              *)
(***************************************************************************)
\* the Entry nodes reachable from the buckets, each named by its place
Nodes(t) ==
    UNION {{<<i, j>> : j \in 1 .. Len(t.buckets[i])} : i \in DOMAIN t.buckets}

NodeCount(t) == Cardinality(Nodes(t))

\* the (key, count) pairs reachable from the buckets
EntrySet(t) ==
    UNION {{t.buckets[i][j] : j \in 1 .. Len(t.buckets[i])} : i \in DOMAIN t.buckets}

KeySet(t) == {e.key : e \in EntrySet(t)}

\* k is one of the generated keys counted before the run began
IsPrefilled(k) ==
    /\ Len(k) = 4
    /\ k[1] \in 48 .. 57 /\ k[2] \in 48 .. 57 /\ k[3] \in 48 .. 57 /\ k[4] \in 48 .. 57
    /\ (k[1] - 48) * 1000 + (k[2] - 48) * 100 + (k[3] - 48) * 10 + (k[4] - 48)
           \in 1 .. prefill

\* the values passed to table_inc by the calls of the run
Passed == {calls[i] : i \in 1 .. Len(calls)}

\* number of table_inc calls made so far with key k
CallCount(k) ==
    (IF k \in Passed THEN Cardinality({i \in 1 .. Len(calls) : calls[i] = k}) ELSE 0)
        + (IF IsPrefilled(k) THEN 1 ELSE 0)

\* number of distinct values passed to table_inc so far
DistinctPassed == prefill + Cardinality({k \in Passed : ~IsPrefilled(k)})

(***************************************************************************)
(* What a document or a byte stream contains, read off directly (not by    *)
(* the scanner's functions).                                               *)
(***************************************************************************)
IsGenerated == doc # NoDoc

\* bytes written before member i of document d: brackets, separators, members
RECURSIVE ItemStart(_, _)
ItemStart(d, i) ==
    (IF i = 1 THEN d.wrap + 1
     ELSE ItemStart(d, i - 1) + Len(MemberText(d.items[i - 1].kind))
          + (IF d.items[i].first THEN 3 ELSE 1))

ItemEnd(d, i) == ItemStart(d, i) + Len(MemberText(d.items[i].kind))

ItemIndexes(d) == 1 .. Len(d.items)

\* members "model": "<string>" written directly in an object of the document
TopPairs(d, kinds) == {i \in ItemIndexes(d) : d.items[i].kind \in kinds}

\* members whose value is a container that holds a "model": "<string>" pair
KeyedContainerKinds == {"modelObj", "nested", "list"}

\* every pair of the document, those inside the value of another key included
PairsWith(d, v) ==
    Cardinality(TopPairs(d, IF v = VAL_A THEN {"modelA", "list"}
                            ELSE {"modelB", "modelObj", "nested"}))

\* the object that member i is written in: the number of members up to i that
\* open an object
ObjectOf(d, i) == Cardinality({j \in 1 .. i : d.items[j].first})

\* each object has at most one "model": "<string>" pair of its own
AtMostOnePairEach(d) ==
    \A i, j \in TopPairs(d, {"modelA", "modelB"}) :
        ObjectOf(d, i) = ObjectOf(d, j) => i = j

ByteAt(p) == IF p >= 0 /\ p < Len(input) THEN input[p + 1] ELSE EOF

StartsAt(p, s) ==
    /\ p + Len(s) <= Len(input)
    /\ SubSeq(input, p + 1, p + Len(s)) = s

\* the first position from p on that holds no white space
RECURSIVE PastSpaces(_)
PastSpaces(p) ==
    IF ByteAt(p) \in {32, 9, 10, 11, 12, 13} THEN PastSpaces(p + 1) ELSE p

\* the position of the closing quote of a literal without escapes whose content
\* begins at p, or -1 if an escape, a zero byte or the end comes first
RECURSIVE PlainClose(_)
PlainClose(p) ==
    IF ByteAt(p) = QUOTE THEN p
    ELSE IF ByteAt(p) \in {EOF, BACKSLASH, 0} THEN -1
    ELSE PlainClose(p + 1)

MODEL_LITERAL == <<QUOTE>> \o KEY_MODEL \o <<QUOTE>>

\* position of the first byte of the value of a "model" key written at p
ModelValueAt(p) == PastSpaces(PastSpaces(p + Len(MODEL_LITERAL)) + 1)

\* "model" is written at p and a colon follows it
ModelKeyAt(p) ==
    /\ StartsAt(p, MODEL_LITERAL)
    /\ ByteAt(PastSpaces(p + Len(MODEL_LITERAL))) = COLON

\* "model": "<string>" with a string without escapes is written at p
PlainPairAt(p) ==
    /\ ModelKeyAt(p)
    /\ ByteAt(ModelValueAt(p)) = QUOTE
    /\ PlainClose(ModelValueAt(p) + 1) >= 0

PlainValueAt(p) ==
    SubSeq(input, ModelValueAt(p) + 2, PlainClose(ModelValueAt(p) + 1))

\* reading the stream as literals and other bytes from byte i on: TRUE if the
\* last literal opened is never closed
RECURSIVE OpenAtEnd(_, _)
OpenAtEnd(i, in_literal) ==
    IF i > Len(input) THEN in_literal
    ELSE IF ~in_literal THEN OpenAtEnd(i + 1, input[i] = QUOTE)
    ELSE IF input[i] = BACKSLASH THEN
        (IF i + 1 > Len(input) THEN TRUE ELSE OpenAtEnd(i + 2, TRUE))
    ELSE OpenAtEnd(i + 1, input[i] # QUOTE)

HasUnterminatedLiteral == OpenAtEnd(1, FALSE)

(***************************************************************************)
(* Claims about the scanner (checked under Spec).                          *)
(***************************************************************************)

\* C1 as stated: on a document of well-formed objects, each with at most one
\* "model": "<string>" pair, process_file succeeds, models_seen is the number
\* of such pairs in the document, size is the number of distinct values among
\* them and each value is counted as often as it occurs.
C1_CountsEveryPair ==
    (pc = "done" /\ IsGenerated /\ AtMostOnePairEach(doc)) =>
        /\ result = 1
        /\ models_seen = PairsWith(doc, VAL_A) + PairsWith(doc, VAL_B)
        /\ table.size = Cardinality({v \in {VAL_A, VAL_B} : PairsWith(doc, v) > 0})
        /\ \A v \in {VAL_A, VAL_B} : get_count(table, v) = PairsWith(doc, v)

\* C1 amended: on a document of well-formed objects, each with at most one
\* "model": "<string>" pair of its own, process_file succeeds, models_seen is
\* the number of such pairs that are not inside the container value of a key,
\* size is the number of distinct values among those and each is counted as
\* often as it occurs among those; on the first input of the unit test that is
\* three values seen, two distinct, RDV2 twice and ABC once.
C1_CountsTopPairs ==
    /\ (pc = "done" /\ IsGenerated /\ AtMostOnePairEach(doc)) =>
        /\ result = 1
        /\ models_seen = Cardinality(TopPairs(doc, {"modelA", "modelB"}))
        /\ table.size = Cardinality({k \in {"modelA", "modelB"} : TopPairs(doc, {k}) # {}})
        /\ get_count(table, VAL_A) = Cardinality(TopPairs(doc, {"modelA"}))
        /\ get_count(table, VAL_B) = Cardinality(TopPairs(doc, {"modelB"}))
        /\ KeySet(table) \subseteq {VAL_A, VAL_B}
    /\ (pc = "done" /\ input = TEST_INPUT_1) =>
        /\ result = 1
        /\ models_seen = 3
        /\ table.size = 2
        /\ get_count(table, VAL_RDV2) = 2
        /\ get_count(table, VAL_ABC) = 1
        /\ get_count(table, VAL_XYZ) = 0

\* C1 witness: a finished run over an array of two objects with one pair each,
\* of two distinct values.
C1_Witness ==
    /\ pc = "done"
    /\ IsGenerated
    /\ doc.wrap = 1
    /\ AtMostOnePairEach(doc)
    /\ TopPairs(doc, {"modelA"}) # {}
    /\ TopPairs(doc, {"modelB"}) # {}
    /\ table.size = 2
    /\ models_seen = 2

\* C2 as stated: a "model": "<string>" pair inside an object that is the value
\* of another key is emitted and counted like a pair that is not nested: after
\* the second input of the unit test RDV2 is counted once, and after a generated
\* document the value B is counted once for every pair written with it.
C2_NestedUnderKeyCounted ==
    /\ (pc = "done" /\ input = TEST_INPUT_2) => get_count(table, VAL_RDV2) = 1
    /\ (pc = "done" /\ IsGenerated) => get_count(table, VAL_B) = PairsWith(doc, VAL_B)

\* C2 amended: a "model": "<string>" pair is emitted and counted whenever the
\* scanner's loop stands at its opening quote, whatever the nesting there (as
\* in an object that is an element of an array); the loop never stands inside a
\* container that is the value of a key, so a pair in there is not counted.
C2_NestedInArrayCounted ==
    /\ [][(pc = "scan" /\ PlainPairAt(pos)) =>
            /\ pc' = "scan"
            /\ pos' = PlainClose(ModelValueAt(pos) + 1) + 1
            /\ models_seen' = models_seen + 1
            /\ get_count(table', PlainValueAt(pos)) = get_count(table, PlainValueAt(pos)) + 1
            /\ table'.size = table.size + (IF get_count(table, PlainValueAt(pos)) = 0 THEN 1 ELSE 0)]_vars
    /\ []((pc = "scan" /\ IsGenerated) =>
            \A i \in TopPairs(doc, KeyedContainerKinds) :
                pos <= ItemStart(doc, i) \/ pos >= ItemEnd(doc, i))
    /\ []((pc = "scan" /\ IsGenerated) =>
            \A i \in TopPairs(doc, {"modelA", "modelB"}) :
                pos >= ItemEnd(doc, i) => get_count(table, CStr(PlainValueAt(ItemStart(doc, i)))) > 0)

\* C2 witness: a finished run over objects in an array, with a pair counted in
\* one of them and a container value of a key passed over.
C2_Witness ==
    /\ pc = "done"
    /\ IsGenerated
    /\ doc.wrap = 1
    /\ TopPairs(doc, {"modelA", "modelB"}) # {}
    /\ TopPairs(doc, KeyedContainerKinds) # {}
    /\ models_seen = 1

\* C3: when the value of a key other than "model" is a container, one step of
\* the loop takes the stream from the key to just behind the matching closer
\* and changes neither the table nor models_seen, whatever pairs the container
\* holds; the second input of the unit test ends with size 1, XYZ counted once
\* and no entry for RDV2.
C3_ContainerSkippedWhole ==
    /\ [][(pc = "scan" /\ IsGenerated) =>
            \A i \in TopPairs(doc, {"nested", "list"}) :
                pos = ItemStart(doc, i) =>
                    /\ pc' = "scan"
                    /\ pos' = ItemEnd(doc, i)
                    /\ table' = table
                    /\ models_seen' = models_seen]_vars
    /\ []((pc = "done" /\ input = TEST_INPUT_2) =>
            /\ result = 1
            /\ models_seen = 1
            /\ table.size = 1
            /\ get_count(table, VAL_XYZ) = 1
            /\ get_count(table, VAL_RDV2) = 0
            /\ VAL_RDV2 \notin KeySet(table))

\* C3 witness: the scanner just behind a container value that holds a pair, the
\* value of the first member of a document, with nothing counted.
C3_Witness ==
    /\ pc = "scan"
    /\ IsGenerated
    /\ doc.items[1].kind \in {"nested", "list"}
    /\ pos = ItemEnd(doc, 1)
    /\ models_seen = 0
    /\ table.size = 0

\* C4: when the key "model" is followed by a value that does not begin with a
\* quote, the step of the loop that reads the key changes neither models_seen
\* nor the table and leaves the stream at or behind the first byte of the value;
\* it ends just behind a number, a null or a container, so the pairs that
\* follow are processed: the third input of the unit test ends with
\* three values seen, RDV2 counted twice and ABC once.
C4_NonStringModelIgnored ==
    /\ [][(pc = "scan" /\ ModelKeyAt(pos) /\ ByteAt(ModelValueAt(pos)) \notin {QUOTE, EOF}) =>
            /\ models_seen' = models_seen
            /\ table' = table
            /\ calls' = calls
            /\ pos' >= ModelValueAt(pos)]_vars
    /\ [][(pc = "scan" /\ IsGenerated) =>
            \A i \in TopPairs(doc, {"modelNum", "modelNull", "modelObj"}) :
                pos = ItemStart(doc, i) =>
                    /\ pc' = "scan"
                    /\ pos' = ItemEnd(doc, i)]_vars
    /\ []((pc = "done" /\ IsGenerated) =>
            \A i \in ItemIndexes(doc) :
                (/\ i > 1
                 /\ doc.items[i - 1].kind \in {"modelNum", "modelNull", "modelObj"}
                 /\ doc.items[i].kind = "modelA") => get_count(table, VAL_A) > 0)
    /\ []((pc = "done" /\ input = TEST_INPUT_3) =>
            /\ result = 1
            /\ models_seen = 3
            /\ table.size = 2
            /\ get_count(table, VAL_RDV2) = 2
            /\ get_count(table, VAL_ABC) = 1)

\* C4 witness: a finished run over "model" with a number, a null or a container
\* as its value, followed by a pair that was counted.
C4_Witness ==
    /\ pc = "done"
    /\ IsGenerated
    /\ Len(doc.items) = 2
    /\ doc.items[1].kind \in {"modelNum", "modelNull", "modelObj"}
    /\ doc.items[2].kind = "modelA"
    /\ models_seen = 1
    /\ get_count(table, VAL_A) = 1

\* C5: when the stream has a string literal that is never closed (a quote with
\* no unescaped closing quote before the end), process_file returns failure,
\* whatever precedes that quote.
C5_UnterminatedFails ==
    (pc = "done" /\ HasUnterminatedLiteral) => result = 0

\* C11 helpers: the escape that an escape input begins with, read off its body
HexDigits == (48 .. 57) \cup (65 .. 70) \cup (97 .. 102)

IsEscapeInput == lit # NoLit

\* \u that is not followed by four hex digits
BadUnicodeEscape(body) ==
    /\ Len(body) >= 1
    /\ body[1] = CH_u
    /\ ~(Len(body) >= 5 /\ \A i \in 2 .. 5 : body[i] \in HexDigits)

QuotesIn(q) == Cardinality({i \in 1 .. Len(q) : q[i] = QUOTE})

\* C11 as stated: a \u that is not followed by four hex digits makes process_file
\* return failure wherever the literal is: a candidate key, the value of "model",
\* a skipped string value or a string inside a skipped container.
C11_BadUnicodeAlwaysFails ==
    (pc = "done" /\ IsEscapeInput /\ BadUnicodeEscape(lit.body)) => result = 0

\* C11 amended: a \u that is not followed by four hex digits makes process_file
\* return failure, with nothing counted, when it is in a literal that is decoded:
\* a candidate key, the value of "model" or a skipped string value.  In a string
\* inside a skipped container only the byte after the backslash is passed over
\* and the digits are not looked at: the skip succeeds exactly if the quotes
\* behind that byte pair up.  Another escape letter is passed through: the
\* literal \g... as the value of "model" is counted as g...
C11_BadUnicodeFailsWhenDecoded ==
    /\ (/\ pc = "done"
        /\ IsEscapeInput
        /\ lit.place \in {"key", "value", "string"}
        /\ BadUnicodeEscape(lit.body)) =>
            /\ result = 0
            /\ models_seen = 0
            /\ table.size = 0
    /\ (pc = "done" /\ IsEscapeInput /\ lit.place = "container" /\ lit.body # <<>>) =>
            (result = 1 <=> QuotesIn(Tail(lit.body)) % 2 = 0)
    /\ (/\ pc = "done"
        /\ IsEscapeInput
        /\ lit.place \in {"key", "value", "string"}
        /\ lit.body # <<>>
        /\ lit.body[1] \notin {CH_u, QUOTE}
        /\ QuotesIn(lit.body) = 0) =>
            /\ result = 1
            /\ calls = IF lit.place = "value" THEN <<lit.body>> ELSE <<>>
    /\ (/\ pc = "done"
        /\ IsEscapeInput
        /\ lit.place = "value"
        /\ lit.body # <<>>
        /\ lit.body[1] = CH_u
        /\ ~BadUnicodeEscape(lit.body)
        /\ QuotesIn(lit.body) = 0) =>
            /\ result = 1
            /\ calls = <<(<<QMARK>> \o SubSeq(lit.body, 6, Len(lit.body)))>>

\* C11 witness: the value of "model" with \u, three hex digits and a letter that
\* is no hex digit; the scan has failed.
C11_Witness ==
    /\ pc = "done"
    /\ IsEscapeInput
    /\ lit.place = "value"
    /\ lit.body = <<CH_u, 49, 49, 49, 103>>
    /\ result = 0

\* C12 helpers: a literal without escapes is written at p and the first byte
\* behind it that is no white space is not a colon
AbandonedAt(p) ==
    /\ ByteAt(p) = QUOTE
    /\ PlainClose(p + 1) >= 0
    /\ ByteAt(PastSpaces(PlainClose(p + 1) + 1)) # COLON

\* the position of that byte
BehindAbandoned(p) == PastSpaces(PlainClose(p + 1) + 1)

\* C12: when a decoded candidate is followed, after optional white space, by a
\* byte other than a colon, the step leaves the table and models_seen unchanged
\* and scanning goes on; a quote in that place is still read as the start of a
\* candidate, so a "model": "<string>" pair written directly behind an abandoned
\* literal is emitted and counted.
C12_QuoteAfterAbandonedSeen ==
    /\ [][(pc = "scan" /\ AbandonedAt(pos)) =>
            /\ pc' = "scan"
            /\ table' = table
            /\ models_seen' = models_seen
            /\ (ByteAt(BehindAbandoned(pos)) = QUOTE => pos' = BehindAbandoned(pos))]_vars
    /\ []((/\ pc = "done"
           /\ AbandonedAt(0)
           /\ PlainPairAt(BehindAbandoned(0))) =>
                get_count(table, PlainValueAt(BehindAbandoned(0))) >= 1)

\* C14 helpers: a comes before b in the order of C strings by unsigned bytes
LexLess(a, b) ==
    \E k \in 1 .. Len(b) :
        /\ \A m \in 1 .. k - 1 : m <= Len(a) /\ a[m] = b[m]
        /\ (k > Len(a) \/ (k <= Len(a) /\ a[k] < b[k]))

\* x is printed before y: more occurrences, or as many and the lesser value
PrintedBefore(x, y) ==
    x.count > y.count \/ (x.count = y.count /\ LexLess(x.key, y.key))

\* C14: after a successful scan main exits with success, having printed the final
\* size as the number of unique models and one line per entry of the table, by
\* descending count and, among equal counts, ascending strcmp order of the value;
\* pair_cmp is negative exactly for two pairs in that order, and zero for none;
\* for the first input of the unit test the lines are RDV2: 2 and ABC: 1.
C14_ReportSorted ==
    /\ []((pc = "exit" /\ result = 1) =>
            /\ out.status = EXIT_SUCCESS
            /\ Len(out.lines) = out.unique
            /\ \A i, j \in 1 .. Len(out.lines) :
                i < j => PrintedBefore(out.lines[i], out.lines[j])
            /\ \A i, j \in 1 .. Len(out.lines) :
                /\ pair_cmp(out.lines[i], out.lines[j]) < 0
                    <=> PrintedBefore(out.lines[i], out.lines[j])
                /\ pair_cmp(out.lines[i], out.lines[j]) > 0
                    <=> PrintedBefore(out.lines[j], out.lines[i])
                /\ pair_cmp(out.lines[i], out.lines[j]) = 0
                    <=> out.lines[i] = out.lines[j])
    \* the step of main that prints: the table is read before it is freed
    /\ [][(pc = "done" /\ result = 1 /\ pc' = "exit") =>
            /\ out'.unique = table.size
            /\ Len(out'.lines) = table.size
            /\ {out'.lines[i] : i \in 1 .. Len(out'.lines)} = EntrySet(table)]_vars
    /\ []((pc = "exit" /\ input = TEST_INPUT_1) =>
            /\ out.unique = 2
            /\ out.lines = <<[key |-> VAL_RDV2, count |-> 2], [key |-> VAL_ABC, count |-> 1]>>)

\* C14 witness: B seen twice is printed before A seen once.
C14_Witness ==
    /\ pc = "exit"
    /\ result = 1
    /\ out.unique = 2
    /\ out.lines = <<[key |-> VAL_B, count |-> 2], [key |-> VAL_A, count |-> 1]>>

\* C15 helpers.  The bytes from position p on, read as bytes outside and inside
\* string literals: the set of the positions q >= p whose byte lies outside
\* (a quote outside opens a literal; inside, a backslash takes the next byte
\* with it and a quote closes)
RECURSIVE OutsideFrom(_, _)
OutsideFrom(q, inside) ==
    IF q >= Len(input) THEN {}
    ELSE IF ~inside THEN
        (IF ByteAt(q) = QUOTE THEN OutsideFrom(q + 1, TRUE)
         ELSE {q} \cup OutsideFrom(q + 1, FALSE))
    ELSE IF ByteAt(q) = BACKSLASH THEN OutsideFrom(q + 2, TRUE)
    ELSE OutsideFrom(q + 1, ByteAt(q) # QUOTE)

\* the depth behind the byte at position q of a container whose content begins
\* at p: 1, plus the openers, minus the closers outside literals
DepthBehind(p, q) ==
    1 + Cardinality({i \in OutsideFrom(p, FALSE) : i <= q /\ ByteAt(i) \in {LBRACE, LBRACKET}})
      - Cardinality({i \in OutsideFrom(p, FALSE) : i <= q /\ ByteAt(i) \in {RBRACE, RBRACKET}})

\* the positions whose byte brings the depth to 0
ClosersOf(p) == {q \in p .. Len(input) - 1 : DepthBehind(p, q) = 0}

\* "k": with a key without escapes is written at p and its value begins with
\* a brace or bracket; the key differs from "model" or not, it does not matter
\* since the value is no string
ContainerValueAt(p) ==
    /\ ByteAt(p) = QUOTE
    /\ PlainClose(p + 1) >= 0
    /\ ByteAt(PastSpaces(PlainClose(p + 1) + 1)) = COLON
    /\ ByteAt(PastSpaces(PastSpaces(PlainClose(p + 1) + 1) + 1)) \in {LBRACE, LBRACKET}

\* position of the first byte of the content of that container
ContentAt(p) == PastSpaces(PastSpaces(PlainClose(p + 1) + 1) + 1) + 1

\* C15: skipping a container starts at depth 1, counts every brace or bracket
\* outside string literals up or down and nothing inside them; it succeeds with
\* the stream just behind the first byte that brings the depth to 0, and it
\* fails exactly if the stream ends before such a byte; the table and
\* models_seen are left alone.
C15_ContainerDepth ==
    [][(pc = "scan" /\ ContainerValueAt(pos)) =>
        /\ table' = table
        /\ models_seen' = models_seen
        /\ IF ClosersOf(ContentAt(pos)) # {}
           THEN /\ pc' = "scan"
                /\ pos' - 1 \in ClosersOf(ContentAt(pos))
                /\ \A q \in ClosersOf(ContentAt(pos)) : pos' - 1 <= q
           ELSE /\ pc' = "done"
                /\ result' = 0]_vars

\* C15 witness: the scanner behind the container {"\""} (a string with an escaped
\* quote in it, then the closer), which it skipped from position 0.
C15_Witness ==
    /\ pc = "scan"
    /\ input = <<34, 107, 34, 58, 123, 34, 92, 34, 34, 125>>
    /\ pos = Len(input)
    /\ models_seen = 0

\* C16 helpers: "<key>": with a key without escapes is written at p; the
\* position of the first byte behind the colon that is no white space
ValueAt(p) == PastSpaces(PastSpaces(PlainClose(p + 1) + 1) + 1)

ScalarValueAt(p) ==
    /\ ByteAt(p) = QUOTE
    /\ PlainClose(p + 1) >= 0
    /\ ByteAt(PastSpaces(PlainClose(p + 1) + 1)) = COLON
    /\ ByteAt(ValueAt(p)) \notin {EOF, QUOTE, LBRACE, LBRACKET}

WhiteSpace == {32, 9, 10, 11, 12, 13}

\* the position of the byte that ends the token beginning at b (Len(input) for
\* the end of the stream)
TokenEnd(b) ==
    CHOOSE q \in b .. Len(input) :
        /\ ByteAt(q) \in {EOF, COMMA, RBRACE, RBRACKET} \cup WhiteSpace
        /\ \A r \in b .. q - 1 : ByteAt(r) \notin {EOF, COMMA, RBRACE, RBRACKET} \cup WhiteSpace

\* C16: skipping a value that begins with none of " { [ never fails: the step
\* goes on scanning, changes neither the table nor models_seen, and leaves the
\* stream at the first comma, closing brace or bracket (so that byte is read
\* next), just behind the first white space byte, or at the end of the stream,
\* whichever comes first.
C16_ScalarSkip ==
    [][(pc = "scan" /\ ScalarValueAt(pos)) =>
        /\ pc' = "scan"
        /\ table' = table
        /\ models_seen' = models_seen
        /\ LET t == TokenEnd(ValueAt(pos))
           IN  pos' = IF ByteAt(t) \in WhiteSpace THEN t + 1 ELSE t]_vars

\* C16 witness: behind "k":1] the scanner stands at the bracket that ended the
\* token 1 and was pushed back.
C16_Witness ==
    /\ pc = "scan"
    /\ input = <<34, 107, 34, 58, 49, 93>>
    /\ pos = 5
    /\ steps = 1
    /\ ByteAt(pos) = RBRACKET

\* C17 helpers: a literal without escapes is written at p, then a colon, then
\* white space or nothing up to the end of the stream
EndsBehindColon(p) ==
    /\ ByteAt(p) = QUOTE
    /\ PlainClose(p + 1) >= 0
    /\ ByteAt(PastSpaces(PlainClose(p + 1) + 1)) = COLON
    /\ ValueAt(p) >= Len(input)

\* a literal without escapes is written at p, then white space or nothing up
\* to the end of the stream
EndsBehindLiteral(p) ==
    /\ ByteAt(p) = QUOTE
    /\ PlainClose(p + 1) >= 0
    /\ PastSpaces(PlainClose(p + 1) + 1) >= Len(input)

\* C17: when the stream ends behind a candidate key and its colon, process_file
\* returns success at once and counts nothing, also for the key "model"; when it
\* ends behind a candidate without a colon, the candidate is dropped, the
\* stream is at its end, and the next test of the loop returns success.
C17_EndOfStreamIsSuccess ==
    /\ [][(pc = "scan" /\ EndsBehindColon(pos)) =>
            /\ pc' = "done"
            /\ result' = 1
            /\ table' = table
            /\ models_seen' = models_seen]_vars
    /\ [][(pc = "scan" /\ EndsBehindLiteral(pos)) =>
            /\ pc' = "scan"
            /\ pos' = Len(input)
            /\ table' = table
            /\ models_seen' = models_seen]_vars
    /\ [][(pc = "scan" /\ pos = Len(input)) =>
            /\ pc' = "done"
            /\ result' = 1
            /\ table' = table
            /\ models_seen' = models_seen]_vars

\* C17 witness: the stream "model": followed by a space has been read to its
\* end and process_file has returned success with nothing counted.
C17_Witness ==
    /\ pc = "done"
    /\ input = <<34, 109, 111, 100, 101, 108, 34, 58, 32>>
    /\ result = 1
    /\ models_seen = 0
    /\ table.size = 0

\* C18 helper: the sum of the counts of a set of entries
RECURSIVE SumCounts(_)
SumCounts(es) ==
    IF es = {} THEN 0
    ELSE LET e == CHOOSE x \in es : TRUE
         IN  e.count + SumCounts(es \ {e})

\* C18: in a scan begun on the empty table with models_seen = 0, table_inc has
\* been called once per value seen: at every point of the scan, and so when
\* process_file has returned success or failure (and main has not yet freed the
\* table), the counts of the entries add up to models_seen and size is at most
\* models_seen.
C18_CountsSumToSeen ==
    /\ Len(calls) = models_seen
    /\ table.size <= models_seen
    /\ pc \in {"scan", "done"} =>
        /\ SumCounts(EntrySet(table)) = models_seen
        /\ table.size = Cardinality(EntrySet(table))

\* C18 witness: process_file has returned failure after one value was counted.
C18_Witness ==
    /\ pc = "done"
    /\ result = 0
    /\ models_seen = 1
    /\ SumCounts(EntrySet(table)) = 1
    /\ table.size = 1

\* C20: process_file terminates on every input: every turn of its loop that
\* goes on scanning leaves the stream further on than it found it (the one
\* byte pushed back by the scalar skip included), the stream is never behind its
\* end, so the loop reads its first byte at most once more than there are
\* bytes, and the scan comes to return success or failure.
C20_Terminates ==
    /\ []((pos >= 0 /\ pos <= Len(input)) /\ steps <= Len(input) + 1)
    /\ [](pc = "scan" => steps <= pos)
    /\ [][(pc = "scan" /\ pc' = "scan") => pos' > pos]_vars
    /\ [][pc = "scan" => pos' >= pos]_vars
    /\ <>(pc # "scan" /\ result \in {0, 1})

\* C20 witness: the scan of "k":1, has returned: one turn skipped the pair and
\* pushed the comma back, one read the comma again, one found the end.
C20_Witness ==
    /\ pc = "done"
    /\ input = <<34, 107, 34, 58, 49, 44>>
    /\ result = 1
    /\ steps = 3

(***************************************************************************)
(* Claims about the table (checked under SpecTable).                       *)
(***************************************************************************)

\* C6: every entry's count equals the number of table_inc calls made with its
\* key, there are as many stored keys as distinct values passed, and a lookup of
\* a value finds exactly the number of calls made with it; values that differ
\* are never counted together, also after a rehash.
C6_CountsExact ==
    /\ \A e \in EntrySet(table) : e.count >= 1 /\ e.count = CallCount(e.key)
    /\ Cardinality(KeySet(table)) = DistinctPassed
    /\ \A k \in TableKeys \cup Passed : get_count(table, k) = CallCount(k)

\* C6 witness: after a growth "" has been passed twice and is counted twice,
\* while "GL1", which shared its bucket before the growth, is counted once.
C6_Witness ==
    /\ table.bucket_count = 2 * INITIAL_BUCKETS
    /\ CallCount(KEY_EMPTY) = 2
    /\ get_count(table, KEY_EMPTY) = 2
    /\ get_count(table, KEY_GL1) = 1

\* C7: when a table_inc call grows the table, table_rehash leaves the (key, count)
\* pairs, the number of nodes and size as they were and doubles bucket_count; the
\* call then continues on the rehashed table.
C7_RehashPreserves ==
    (Len(calls) > 0 /\ NeedsGrow(before)) =>
        LET r == table_rehash(before)
        IN  /\ EntrySet(r) = EntrySet(before)
            /\ NodeCount(r) = NodeCount(before)
            /\ r.size = before.size
            /\ r.bucket_count = 2 * before.bucket_count
            /\ table = IncNoGrow(r, lastKey)

\* C7 witness: a call that began at the growth threshold of the initial capacity
\* and ended with twice the buckets.
C7_Witness ==
    /\ Len(calls) > 0
    /\ NeedsGrow(before)
    /\ before.size = GrowAt
    /\ before.bucket_count = INITIAL_BUCKETS
    /\ table.bucket_count = 2 * INITIAL_BUCKETS

\* C8 as stated: after every table_inc call that inserted a new entry,
\* size * 4 < bucket_count * 3.
C8_LoadStrictlyBelow ==
    (Len(calls) > 0 /\ table.size = before.size + 1) =>
        table.size * LOAD_FACTOR_DEN < table.bucket_count * LOAD_FACTOR_NUM

\* C8 amended: after every table_inc call that inserted a new entry,
\* size * 4 <= bucket_count * 3 (the threshold itself is reached).
C8_LoadAtMost ==
    (Len(calls) > 0 /\ table.size = before.size + 1) =>
        table.size * LOAD_FACTOR_DEN <= table.bucket_count * LOAD_FACTOR_NUM

\* C8 witness: an insertion that brought size * 4 to bucket_count * 3 exactly.
C8_Witness ==
    /\ Len(calls) > 0
    /\ table.size = before.size + 1
    /\ table.size * LOAD_FACTOR_DEN = table.bucket_count * LOAD_FACTOR_NUM

\* C9: size equals the number of Entry nodes reachable from the bucket chains.
C9_SizeIsNodeCount ==
    table.size = NodeCount(table)

\* C9 witness: an insertion made by the call that grew the table.
C9_Witness ==
    /\ table.bucket_count = 2 * INITIAL_BUCKETS
    /\ table.size = GrowAt + 1
    /\ before.size = GrowAt

\* C10: no two entries of the table, in one chain or in two, have equal keys.
C10_KeysUnique ==
    Cardinality(KeySet(table)) = NodeCount(table)

\* C10 witness: a value found behind the head of its chain and counted again
\* there instead of being inserted a second time.
C10_Witness ==
    \E i \in DOMAIN table.buckets :
        /\ Len(table.buckets[i]) >= 2
        /\ table.buckets[i][2].count >= 2
        /\ lastKey = table.buckets[i][2].key

RECURSIVE IsPowerOfTwo(_)
IsPowerOfTwo(n) == n = 1 \/ (n > 1 /\ n % 2 = 0 /\ IsPowerOfTwo(n \div 2))

\* C13: bucket_count is a power of two and at least 4096; a table_inc call
\* leaves it as it was or doubles it once, and it doubles exactly when the call
\* found size * 4 >= bucket_count * 3, which is when it calls table_rehash.
C13_BucketCountDoubles ==
    /\ IsPowerOfTwo(table.bucket_count)
    /\ table.bucket_count >= INITIAL_BUCKETS
    /\ table.bucket_count >= before.bucket_count
    /\ table.bucket_count \in {before.bucket_count, 2 * before.bucket_count}
    /\ Len(calls) > 0 =>
        (table.bucket_count = 2 * before.bucket_count
            <=> before.size * LOAD_FACTOR_DEN >= before.bucket_count * LOAD_FACTOR_NUM)

\* C13 witness: a call that doubled the initial capacity.
C13_Witness ==
    /\ Len(calls) > 0
    /\ before.bucket_count = INITIAL_BUCKETS
    /\ table.bucket_count = 2 * INITIAL_BUCKETS
    /\ IsPowerOfTwo(table.bucket_count)

\* C19: every entry is linked in the chain of bucket hash_str(key) mod
\* bucket_count for the current bucket_count, before and after a rehash, so the
\* lookup that walks that one chain returns the count of the entry wherever an
\* entry with the key exists.
C19_EntriesInHomeBucket ==
    \A i \in DOMAIN table.buckets :
        /\ i \in 0 .. table.bucket_count - 1
        /\ \A j \in 1 .. Len(table.buckets[i]) :
            LET e == table.buckets[i][j]
                home == HashMod(hash_str(e.key), table.bucket_count)
                chain == Chain(table.buckets, home)
                found == FindInChain(chain, e.key, 1)
            IN  /\ home = i
                /\ found > 0
                /\ chain[found].count = e.count

\* C19 witness: after a growth, the value "GL1" that shared bucket 899 with ""
\* among 4096 buckets is linked in bucket 4995 of 8192 and found there.
C19_Witness ==
    /\ table.bucket_count = 2 * INITIAL_BUCKETS
    /\ 4995 \in DOMAIN table.buckets
    /\ \E j \in 1 .. Len(table.buckets[4995]) : table.buckets[4995][j].key = KEY_GL1
    /\ \E j \in 1 .. Len(Chain(table.buckets, 899)) : table.buckets[899][j].key = KEY_EMPTY
    /\ get_count(table, KEY_GL1) >= 1

====
